---------------------------- MODULE Spec2Model ----------------------------
(***************************************************************************)
(* A model of the editing core of the text editor: the tokenizer           *)
(* (highlighting.rs), the line (row.rs), the document (document.rs) and    *)
(* the cursor of the editor (editor.rs).                                   *)
(*                                                                         *)
(* A string is a sequence of characters, each a one-character string or,   *)
(* for a character outside ASCII, its code point's name.  String::len and  *)
(* the offsets of slices and of str::find count bytes (ByteLen); chars()   *)
(* counts characters (Len).  The two coincide on ASCII text.               *)
(* Columns and rows are 0-based as in the source; sequences are 1-based,   *)
(* so character i of the source is string[i + 1].                          *)
(***************************************************************************)
EXTENDS Integers, Sequences, FiniteSets, TLC

(***************************************************************************)
(* Bounds of the model.                                                    *)
(***************************************************************************)
\* longest line text drawn in the row-level specification
MaxLine == 3
\* most lines a document holds
MaxRows == 3
\* most characters a document holds in total
MaxChars == 3
\* most inserts whose character is lost that the counting specification follows
MaxLost == 1
\* the lines and the characters of a document that is saved and opened
MaxSavedRows == 2
MaxSavedChars == 2
\* the rows and the columns of the terminal that show the document
TerminalHeight == 2
TerminalWidth == 2

(***************************************************************************)
(* Values.                                                                 *)
(***************************************************************************)
\* Option::None and Option::Some(v)
None == <<"None">>
Some(v) == <<"Some", v>>
IsSome(o) == o[1] = "Some"
Unwrap(o) == o[2]

\* the initial value of previous_char, '\0'
NUL == "NUL"

\* usize::saturating_sub
SatSub(a, b) == IF a >= b THEN a - b ELSE 0

\* a local: Op applied to the value v
Bind(v, Op(_)) == Op(v)

\* the strings over alphabet S of length at most n
RECURSIVE StringsUpTo(_, _)
StringsUpTo(S, n) ==
    IF n = 0 THEN {<<>>}
    ELSE LET shorter == StringsUpTo(S, n - 1)
         IN  shorter \cup {Append(s, c) : s \in shorter, c \in S}

\* the concatenation of a sequence of strings
RECURSIVE Concat(_)
Concat(ss) == IF ss = <<>> THEN <<>> ELSE Head(ss) \o Concat(Tail(ss))

\* n copies of v
Repeat(v, n) == [i \in 1..n |-> v]

(***************************************************************************)
(* char and str primitives of the standard library used by the source.     *)
(***************************************************************************)
\* U+0060 and U+000B, which a string literal cannot hold
Backtick == "U+0060"
VerticalTab == "U+000B"

AsciiPunctuation ==
    {"!", "\"", "#", "$", "%", "&", "'", "(", ")", "*", "+", ",", "-", ".",
     "/", ":", ";", "<", "=", ">", "?", "@", "[", "\\", "]", "^", "_", Backtick,
     "{", "|", "}", "~"}
AsciiWhitespace == {" ", "\t", "\n", "\f", "\r"}
\* what str::trim removes (White_Space, restricted to ASCII)
TrimWhitespace == AsciiWhitespace \cup {VerticalTab}
Digits == {"0", "1", "2", "3", "4", "5", "6", "7", "8", "9"}

is_ascii_punctuation(c) == c \in AsciiPunctuation
is_ascii_whitespace(c) == c \in AsciiWhitespace

\* str::trim
RECURSIVE TrimStart(_)
TrimStart(s) ==
    IF s # <<>> /\ Head(s) \in TrimWhitespace THEN TrimStart(Tail(s)) ELSE s
RECURSIVE TrimEnd(_)
TrimEnd(s) ==
    IF s # <<>> /\ s[Len(s)] \in TrimWhitespace
    THEN TrimEnd(SubSeq(s, 1, Len(s) - 1)) ELSE s
Trim(s) == TrimEnd(TrimStart(s))

\* str::starts_with and str::ends_with
StartsWith(s, p) == Len(p) <= Len(s) /\ SubSeq(s, 1, Len(p)) = p
EndsWith(s, p) ==
    Len(p) <= Len(s) /\ SubSeq(s, Len(s) - Len(p) + 1, Len(s)) = p

\* the digits in order, and usize::MAX (64 bits) in decimal
DigitOrder == <<"0", "1", "2", "3", "4", "5", "6", "7", "8", "9">>
DigitValue(c) == CHOOSE n \in 0..(Len(DigitOrder) - 1) : DigitOrder[n + 1] = c
UsizeMax ==
    <<"1", "8", "4", "4", "6", "7", "4", "4", "0", "7",
      "3", "7", "0", "9", "5", "5", "1", "6", "1", "5">>

\* the digits without their leading zeros
RECURSIVE StripZeros(_)
StripZeros(d) == IF d # <<>> /\ Head(d) = "0" THEN StripZeros(Tail(d)) ELSE d

\* a <= b, for numerals of the same length
RECURSIVE NumeralLeq(_, _)
NumeralLeq(a, b) ==
    IF a = <<>> THEN TRUE
    ELSE IF DigitValue(Head(a)) # DigitValue(Head(b))
         THEN DigitValue(Head(a)) < DigitValue(Head(b))
         ELSE NumeralLeq(Tail(a), Tail(b))

\* the value of the digits is at most usize::MAX
FitsUsize(d) ==
    \/ Len(StripZeros(d)) < Len(UsizeMax)
    \/ Len(StripZeros(d)) = Len(UsizeMax) /\ NumeralLeq(StripZeros(d), UsizeMax)

\* str::parse::<usize>().is_ok(): an optional '+', at least one digit,
\* nothing else, and a value that fits usize
ParsesAsUsize(s) ==
    LET digits == IF s # <<>> /\ Head(s) = "+" THEN Tail(s) ELSE s
    IN  /\ digits # <<>>
        /\ \A i \in 1..Len(digits) : digits[i] \in Digits
        /\ FitsUsize(digits)

\* whether pattern p occurs in s at 0-based offset k
OccursAt(s, p, k) ==
    k + Len(p) <= Len(s) /\ SubSeq(s, k + 1, k + Len(p)) = p

\* str::find: the offset of the first occurrence, or None
StrFind(s, p) ==
    LET hits == {k \in 0..Len(s) : OccursAt(s, p, k)}
    IN  IF hits = {} THEN None
        ELSE Some(CHOOSE k \in hits : \A j \in hits : k <= j)

\* str::rfind: the offset of the last occurrence, or None
StrRFind(s, p) ==
    LET hits == {k \in 0..Len(s) : OccursAt(s, p, k)}
    IN  IF hits = {} THEN None
        ELSE Some(CHOOSE k \in hits : \A j \in hits : k >= j)

(***************************************************************************)
(* UTF-8: the bytes of a String.                                           *)
(***************************************************************************)
\* a character of two bytes in UTF-8 (e with acute accent)
EAcute == "U+00E9"
WideChars == {EAcute}

\* char::len_utf8
Utf8Width(c) == IF c \in WideChars THEN 2 ELSE 1

\* String::len, str::len: the number of bytes
RECURSIVE ByteLen(_)
ByteLen(s) == IF s = <<>> THEN 0 ELSE Utf8Width(Head(s)) + ByteLen(Tail(s))

\* the byte offset of the character at index k (0-based; k = Len(s): the end)
ByteOffset(s, k) == ByteLen(SubSeq(s, 1, k))

\* str::is_char_boundary: offset b is the start of a character or the end
IsCharBoundary(s, b) == \E k \in 0..Len(s) : ByteOffset(s, k) = b

\* the number of characters before the boundary at byte offset b
CharsBefore(s, b) == CHOOSE k \in 0..Len(s) : ByteOffset(s, k) = b

(***************************************************************************)
(* File types and their highlighting options (filetype.rs).                *)
(***************************************************************************)
\* FileType::default(): no category enabled, no keywords
DefaultFileType == "default"
\* a recognised file type: every category enabled, `let` a primary keyword
RustFileType == "rust"
FileTypes == {DefaultFileType, RustFileType}

\* FileType::highlighting_options
HighlightingOptions(filetype) ==
    IF filetype = RustFileType
    THEN [numbers |-> TRUE, strings |-> TRUE, characters |-> TRUE,
          comments |-> TRUE, punctuation |-> TRUE,
          primary_keywords |-> {<<"l", "e", "t">>},
          secondary_keywords |-> {<<"u", "8">>}]
    ELSE [numbers |-> FALSE, strings |-> FALSE, characters |-> FALSE,
          comments |-> FALSE, punctuation |-> FALSE,
          primary_keywords |-> {}, secondary_keywords |-> {}]

\* FileType::from(filename): by the extension of the name
FileTypeFrom(name) ==
    IF EndsWith(name, <<".", "r", "s">>) THEN RustFileType ELSE DefaultFileType

(***************************************************************************)
(* highlighting.rs: Token::from and Token::tokenize.                       *)
(***************************************************************************)
\* Token::from: the type of a span, by the first rule that matches;
\* the value is the span as given
TokenType(opts, string) ==
    LET new_string == Trim(string)
    IN  IF new_string = <<>> THEN "WhiteSpace"
        ELSE IF ParsesAsUsize(Trim(string)) /\ opts.numbers THEN "Number"
        ELSE IF EndsWith(new_string, <<"\"">>) /\ StartsWith(new_string, <<"\"">>)
                /\ opts.strings THEN "String"
        ELSE IF EndsWith(string, <<"'">>) /\ StartsWith(string, <<"'">>)
                /\ opts.characters THEN "Character"
        ELSE IF StartsWith(new_string, <<"/", "/">>) /\ opts.comments THEN "Comment"
        ELSE IF new_string \in opts.primary_keywords THEN "PrimaryKeywords"
        ELSE IF new_string \in opts.secondary_keywords THEN "SecondaryKeywords"
        ELSE IF ByteLen(new_string) = 1 /\ is_ascii_punctuation(new_string[1])
                /\ opts.punctuation THEN "Punctuation"
        ELSE "None"

TokenFrom(opts, string) ==
    [value |-> string, token_type |-> TokenType(opts, string)]

\* the locals of Token::tokenize before the loop; done is set by the break,
\* panicked by a slice that does not start at a character boundary
TokenizeStart ==
    [tokens |-> <<>>, buffer |-> <<>>, previous_char |-> NUL,
     found_string |-> FALSE, found_char |-> FALSE, done |-> FALSE,
     panicked |-> FALSE]

\* one iteration of the loop of Token::tokenize, at character i (0-based)
TokenizeStep(opts, string, st, i) ==
    LET c == string[i + 1]
        emit(toks, buf) == Append(toks, TokenFrom(opts, buf))
    IN  IF is_ascii_punctuation(c) \/ is_ascii_whitespace(c)
        THEN IF st.previous_char = "/" /\ c = "/"
             THEN \* buffer = string[(i - 1)..]; push; break.  i counts
                  \* characters and the slice starts at byte i - 1
                  IF ~IsCharBoundary(string, i - 1)
                  THEN [st EXCEPT !.done = TRUE, !.panicked = TRUE]
                  ELSE [st EXCEPT
                           !.buffer = SubSeq(string, CharsBefore(string, i - 1) + 1,
                                             Len(string)),
                           !.tokens = emit(st.tokens,
                                           SubSeq(string, CharsBefore(string, i - 1) + 1,
                                                  Len(string))),
                           !.done = TRUE]
             ELSE IF c = "\""
             THEN IF st.found_string /\ st.previous_char # "\\"
                  THEN [st EXCEPT !.found_string = FALSE,
                                  !.tokens = emit(st.tokens, Append(st.buffer, c)),
                                  !.buffer = <<>>,
                                  !.previous_char = c]
                  ELSE [st EXCEPT !.found_string = TRUE,
                                  !.buffer = Append(st.buffer, c),
                                  !.previous_char = c]
             ELSE IF c = "'" /\ ~st.found_string
             THEN IF st.found_char
                  THEN [st EXCEPT !.tokens = emit(st.tokens, Append(st.buffer, c)),
                                  !.buffer = <<>>,
                                  !.found_char = FALSE,
                                  !.previous_char = c]
                  ELSE [st EXCEPT !.found_char = TRUE,
                                  !.buffer = Append(st.buffer, c),
                                  !.previous_char = c]
             ELSE IF c # "/"
             THEN [st EXCEPT !.tokens = emit(emit(st.tokens, st.buffer), <<c>>),
                             !.buffer = <<>>,
                             !.previous_char = c]
             ELSE [st EXCEPT !.previous_char = c]
        ELSE IF c = "\n" \/ c = "\r" \/ i = ByteLen(string) - 1
        THEN [st EXCEPT !.tokens = emit(st.tokens, Append(st.buffer, c)),
                        !.buffer = <<>>,
                        !.previous_char = c]
        ELSE [st EXCEPT !.buffer = Append(st.buffer, c),
                        !.previous_char = c]

\* the loop of Token::tokenize from character i on
RECURSIVE TokenizeLoop(_, _, _, _)
TokenizeLoop(opts, string, st, i) ==
    IF i >= Len(string) \/ st.done THEN st
    ELSE TokenizeLoop(opts, string, TokenizeStep(opts, string, st, i), i + 1)

\* Token::tokenize: the tokens returned (the pending buffer is not flushed)
Tokenize(filetype, string) ==
    TokenizeLoop(HighlightingOptions(filetype), string, TokenizeStart, 0).tokens

\* Token::tokenize panics
TokenizePanics(filetype, string) ==
    TokenizeLoop(HighlightingOptions(filetype), string, TokenizeStart, 0).panicked

\* the text of all tokens, in order
TokenValues(tokens) == Concat([i \in 1..Len(tokens) |-> tokens[i].value])

(***************************************************************************)
(* row.rs: a line, its text and its two per-character overlays.            *)
(***************************************************************************)
\* SearchDirection
Forward == "Forward"
Backward == "Backward"
Directions == {Forward, Backward}

\* how a call ends: it returns, it panics (an index or a slice out of range),
\* or it never returns (a loop whose state repeats)
Returned(v) == [kind |-> "ok", value |-> v]
Panicked == [kind |-> "panic"]
Hung == [kind |-> "hang"]

\* Row::from(slice) and Row::default()
Row_from(slice) == [string |-> slice, highlighting |-> <<>>, shading |-> <<>>]
Row_default == Row_from(<<>>)

\* Row::len: self.string.len(), the number of bytes
Row_len(row) == ByteLen(row.string)

\* Row::text
Row_text(row) == row.string

\* Row::delete: copies the text, skipping the character at index `at`
Row_delete(row, at) ==
    LET string == row.string
    IN  [row EXCEPT !.string =
            Concat([i \in 1..Len(string) |->
                       IF i - 1 = at THEN <<>> ELSE <<string[i]>>])]

\* Row::insert: pushes c when at = self.string.len() (bytes); else copies
\* the text, putting c before the character at index `at` (there is none
\* when at >= the number of characters)
Row_insert(row, c, at) ==
    LET string == row.string
    IN  [row EXCEPT !.string =
            IF ByteLen(string) = at THEN Append(string, c)
            ELSE Concat([i \in 1..Len(string) |->
                            IF at = i - 1 THEN <<c, string[i]>> ELSE <<string[i]>>])]

\* Row::split as it would be if the new row started after column pos:
\* the character at pos goes to neither row
Row_split_skips_pos(row, pos) ==
    LET string == row.string
        this_string == Concat([i \in 1..Len(string) |->
                                  IF i - 1 >= pos THEN <<>> ELSE <<string[i]>>])
        new_string == Concat([i \in 1..Len(string) |->
                                 IF i - 1 > pos THEN <<string[i]>> ELSE <<>>])
    IN  << [row EXCEPT !.string = this_string],
           [string |-> new_string, highlighting |-> <<>>, shading |-> <<>>] >>

\* Row::split: <<self after the call, the row returned>>; characters at
\* index >= pos go to the new row.  Only self.string is assigned; the
\* returned row has new empty overlays
Row_split(row, pos) ==
    LET string == row.string
        this_string == Concat([i \in 1..Len(string) |->
                                  IF i - 1 >= pos THEN <<>> ELSE <<string[i]>>])
        new_string == Concat([i \in 1..Len(string) |->
                                 IF i - 1 >= pos THEN <<string[i]>> ELSE <<>>])
    IN  << [row EXCEPT !.string = this_string],
           [string |-> new_string, highlighting |-> <<>>, shading |-> <<>>] >>

\* Row::append
Row_append(row, other_row) ==
    [row EXCEPT !.string = row.string \o other_row.string]

\* Row::find as it would be if the forward search returned where the
\* match starts, the length of the query not added
Row_find_match_start(string, query, start, direction) ==
    IF direction = Forward
    THEN IF start >= ByteLen(string) THEN Returned(None)
         ELSE IF ~IsCharBoundary(string, start) THEN Panicked
         ELSE Bind(SubSeq(string, CharsBefore(string, start) + 1, Len(string)),
                   LAMBDA new_string :
                       Bind(StrFind(new_string, query),
                            LAMBDA location :
                                IF IsSome(location)
                                THEN Returned(Some(ByteOffset(new_string, Unwrap(location))
                                                   + start))
                                ELSE Returned(None)))
    ELSE Bind(SatSub(start, ByteLen(query)),
              LAMBDA start2 :
                  IF ~IsCharBoundary(string, start2) THEN Panicked
                  ELSE Bind(StrRFind(SubSeq(string, 1, CharsBefore(string, start2)), query),
                            LAMBDA location :
                                IF IsSome(location)
                                THEN Returned(Some(ByteOffset(string, Unwrap(location))
                                                   + ByteLen(query)))
                                ELSE Returned(None)))

\* Row::find on the text: Returned(Option<usize>) or a panic.  start, the
\* offsets of the slices, the location str::find returns and query.len()
\* are byte counts; a slice panics when its offset is past the end or
\* inside a character
Row_find(string, query, start, direction) ==
    IF direction = Forward
    THEN IF start >= ByteLen(string) THEN Returned(None)
         ELSE IF ~IsCharBoundary(string, start) THEN Panicked
         ELSE Bind(SubSeq(string, CharsBefore(string, start) + 1, Len(string)),
                   LAMBDA new_string :
                       Bind(StrFind(new_string, query),
                            LAMBDA location :
                                IF IsSome(location)
                                THEN Returned(Some(ByteOffset(new_string, Unwrap(location))
                                                   + start + ByteLen(query)))
                                ELSE Returned(None)))
    ELSE Bind(SatSub(start, ByteLen(query)),
              LAMBDA start2 :
                  IF ~IsCharBoundary(string, start2) THEN Panicked
                  ELSE Bind(StrRFind(SubSeq(string, 1, CharsBefore(string, start2)), query),
                            LAMBDA location :
                                IF IsSome(location)
                                THEN Returned(Some(ByteOffset(string, Unwrap(location))
                                                   + ByteLen(query)))
                                ELSE Returned(None)))

\* the highlighting overlay of Row::highlight: each token's type, once per
\* character of its value
RECURSIVE ExpandTokens(_)
ExpandTokens(tokens) ==
    IF tokens = <<>> THEN <<>>
    ELSE Repeat(Head(tokens).token_type, Len(Head(tokens).value))
         \o ExpandTokens(Tail(tokens))

\* the for loop of Row::highlight: shading[i] = Match for i in first..index
MarkRange(shading, first, index) ==
    [i \in 1..Len(shading) |->
        IF first <= i - 1 /\ i - 1 < index THEN "Match" ELSE shading[i]]

\* the while loop of Row::highlight: marks [index - len(word), index) of the
\* shading for each match found from search_index on.  shading[i] panics
\* when i is not an index of the shading; the loop never ends when an
\* iteration leaves search_index and the shading as they were
RECURSIVE MarkMatches(_, _, _, _)
MarkMatches(string, word, search_index, shading) ==
    Bind(Row_find(string, word, search_index, Forward),
         LAMBDA found :
             IF found.kind # "ok" THEN found
             ELSE IF ~IsSome(found.value) THEN Returned(shading)
             ELSE Bind(Unwrap(found.value),
                       LAMBDA index :
                           IF SatSub(index, ByteLen(word)) < index /\ index > Len(shading)
                           THEN Panicked
                           ELSE Bind(MarkRange(shading, SatSub(index, ByteLen(word)), index),
                                     LAMBDA marked :
                                         IF index = search_index /\ marked = shading
                                         THEN Hung
                                         ELSE MarkMatches(string, word, index, marked))))

\* Row::highlight: Returned(the row with both overlays recomputed), a panic
\* or a hang
Row_highlight(row, filetype, search_word) ==
    IF TokenizePanics(filetype, row.string) THEN Panicked
    ELSE
    Bind(ExpandTokens(Tokenize(filetype, row.string)),
         LAMBDA highlighting :
             Bind(IF IsSome(search_word)
                  THEN MarkMatches(row.string, Unwrap(search_word), 0,
                                   Repeat("None", Len(highlighting)))
                  ELSE Returned(Repeat("None", Len(highlighting))),
                  LAMBDA marked :
                      IF marked.kind = "ok"
                      THEN Returned([row EXCEPT !.highlighting = highlighting,
                                                !.shading = marked.value])
                      ELSE marked))

(***************************************************************************)
(* document.rs.  A document is modelled by its five fields.  The document  *)
(* operations read of a row only its text: the overlays are written by     *)
(* Row::highlight and read by Row::render alone.  So `rows` holds each     *)
(* row's text, and a highlight call made by a document operation is        *)
(* modelled by how it ends (HighlightEnds); the overlays themselves are    *)
(* followed in the row-level specification SpecRow.                        *)
(***************************************************************************)
\* Position { x, y }
Position(x, y) == [x |-> x, y |-> y]

\* Document::default()
Document_default ==
    [rows |-> <<>>, filetype |-> DefaultFileType, filename |-> None,
     search_string |-> None, is_dirty |-> FALSE]

\* Vec::remove(index) and Vec::insert(index, element), index 0-based
VecRemove(v, index) == SubSeq(v, 1, index) \o SubSeq(v, index + 2, Len(v))
VecInsert(v, index, e) == SubSeq(v, 1, index) \o <<e>> \o SubSeq(v, index + 1, Len(v))

\* how row.highlight(filetype, search_word) ends on a row of this text
HighlightEnds(filetype, text, search_word) ==
    Row_highlight(Row_from(text), filetype, search_word).kind

\* Document::len
Document_len(doc) == Len(doc.rows)

\* Document::delete as it would be if the merge removed the next row
\* without appending it
Document_delete_no_append(doc, pos) ==
    IF pos.y >= Document_len(doc) THEN Returned(doc)
    ELSE IF pos.x = Row_len(Row_from(doc.rows[pos.y + 1]))
            /\ pos.y + 1 < Document_len(doc)
    THEN Returned([doc EXCEPT !.rows = VecRemove(doc.rows, pos.y + 1),
                              !.is_dirty = TRUE])
    ELSE Returned([doc EXCEPT !.rows[pos.y + 1] =
                                  Row_delete(Row_from(doc.rows[pos.y + 1]), pos.x).string,
                              !.is_dirty = TRUE])

\* Document::delete as it would be if it did not mark the document dirty
Document_delete_not_dirty(doc, pos) ==
    IF pos.y >= Document_len(doc) THEN Returned(doc)
    ELSE IF pos.x = Row_len(Row_from(doc.rows[pos.y + 1]))
            /\ pos.y + 1 < Document_len(doc)
    THEN Returned([doc EXCEPT
             !.rows = [VecRemove(doc.rows, pos.y + 1) EXCEPT ![pos.y + 1] =
                          Row_append(Row_from(doc.rows[pos.y + 1]),
                                     Row_from(doc.rows[pos.y + 2])).string]])
    ELSE Returned([doc EXCEPT !.rows[pos.y + 1] =
                                  Row_delete(Row_from(doc.rows[pos.y + 1]), pos.x).string])

\* Document::delete
Document_delete(doc, pos) ==
    IF pos.y >= Document_len(doc) THEN Returned(doc)
    ELSE IF pos.x = Row_len(Row_from(doc.rows[pos.y + 1]))
            /\ pos.y + 1 < Document_len(doc)
    THEN \* next_row = rows.remove(pos.y + 1); rows[pos.y].append(&next_row)
         Returned([doc EXCEPT
             !.rows = [VecRemove(doc.rows, pos.y + 1) EXCEPT ![pos.y + 1] =
                          Row_append(Row_from(doc.rows[pos.y + 1]),
                                     Row_from(doc.rows[pos.y + 2])).string],
             !.is_dirty = TRUE])
    ELSE Returned([doc EXCEPT !.rows[pos.y + 1] =
                                  Row_delete(Row_from(doc.rows[pos.y + 1]), pos.x).string,
                              !.is_dirty = TRUE])

\* Document::insert
Document_insert(doc, c, pos) ==
    IF pos.y > Document_len(doc) THEN Returned(doc)
    ELSE IF c = "\n"
    THEN IF pos.x = 0
         THEN Returned([doc EXCEPT !.rows = VecInsert(doc.rows, pos.y, Row_default.string),
                                   !.is_dirty = TRUE])
         ELSE IF pos.y >= Document_len(doc) THEN Panicked    \* self.rows[pos.y]
         ELSE Bind(HighlightEnds(doc.filetype, doc.rows[pos.y + 1], doc.search_string),
                   LAMBDA first :
                       IF first # "ok" THEN [kind |-> first]
                       ELSE Bind(Row_split(Row_from(doc.rows[pos.y + 1]), pos.x),
                                 LAMBDA halves :
                                     Bind(HighlightEnds(doc.filetype, halves[2].string,
                                                        doc.search_string),
                                          LAMBDA second :
                                              IF second # "ok" THEN [kind |-> second]
                                              ELSE Returned([doc EXCEPT
                                                  !.rows = VecInsert(
                                                      [doc.rows EXCEPT ![pos.y + 1] = halves[1].string],
                                                      pos.y + 1, halves[2].string),
                                                  !.is_dirty = TRUE]))))
    ELSE IF pos.y = Len(doc.rows)
    THEN Bind(Row_insert(Row_default, c, 0),
              LAMBDA row :
                  Bind(HighlightEnds(doc.filetype, row.string, doc.search_string),
                       LAMBDA ends :
                           IF ends # "ok" THEN [kind |-> ends]
                           ELSE Returned([doc EXCEPT !.rows = Append(doc.rows, row.string),
                                                     !.is_dirty = TRUE])))
    ELSE Bind(HighlightEnds(doc.filetype, doc.rows[pos.y + 1], doc.search_string),
              LAMBDA ends :
                  IF ends # "ok" THEN [kind |-> ends]
                  ELSE Returned([doc EXCEPT !.rows[pos.y + 1] =
                                     Row_insert(Row_from(doc.rows[pos.y + 1]), c, pos.x).string,
                                 !.is_dirty = TRUE]))

\* a match at column x of row y in Document::find: search_string is set,
\* the row is highlighted with the query, Some(Position { x, y }) returned
FindMatch(doc, query, x, y) ==
    Bind(HighlightEnds(doc.filetype, doc.rows[y + 1], Some(query)),
         LAMBDA ends :
             IF ends # "ok" THEN [kind |-> ends]
             ELSE Returned([doc |-> [doc EXCEPT !.search_string = Some(query)],
                            result |-> Some(Position(x, y))]))

\* the loops of Document::find at row y: forward y runs from at.y up to the
\* last row and the column restarts at 0 on later rows; backward y runs
\* from at.y down to 0 (self.rows[y] panics past the last row) and the
\* column restarts at len - 1 on earlier rows
RECURSIVE FindLoop(_, _, _, _, _)
FindLoop(doc, query, at, direction, y) ==
    IF direction = Forward /\ y >= Len(doc.rows)
    THEN Returned([doc |-> doc, result |-> None])
    ELSE IF direction = Backward /\ y < 0
    THEN Returned([doc |-> doc, result |-> None])
    ELSE IF direction = Backward /\ y >= Len(doc.rows) THEN Panicked
    ELSE Bind(Row_find(doc.rows[y + 1], query,
                       IF direction = Forward
                       THEN (IF y > at.y THEN 0 ELSE at.x)
                       ELSE (IF y < at.y THEN SatSub(Row_len(Row_from(doc.rows[y + 1])), 1)
                             ELSE at.x),
                       direction),
              LAMBDA found :
                  IF found.kind # "ok" THEN found
                  ELSE IF IsSome(found.value)
                  THEN FindMatch(doc, query, Unwrap(found.value), y)
                  ELSE FindLoop(doc, query, at, direction,
                                IF direction = Forward THEN y + 1 ELSE y - 1))

\* Document::find
Document_find(doc, query, at, direction) ==
    FindLoop(doc, query, at, direction, at.y)

\* the loop of Document::hightlight from row i on
RECURSIVE HightlightLoop(_, _)
HightlightLoop(doc, i) ==
    IF i >= Len(doc.rows) THEN Returned(doc)
    ELSE Bind(HighlightEnds(doc.filetype, doc.rows[i + 1], doc.search_string),
              LAMBDA ends :
                  IF ends # "ok" THEN [kind |-> ends]
                  ELSE HightlightLoop(doc, i + 1))

\* Document::hightlight: every row is highlighted again, in order
Document_hightlight(doc) == HightlightLoop(doc, 0)

(***************************************************************************)
(* The file of the document.  One path is modelled; the file is absent     *)
(* (NoFile) or holds a string.                                             *)
(***************************************************************************)
NoFile == <<"NoFile">>
FileOf(content) == <<"File", content>>
Exists(file) == file[1] = "File"
Content(file) == file[2]

\* the path the document is saved to and opened from
Path == <<"f", ".", "r", "s">>

\* str::lines as it would be if it were a split at line feeds: the piece
\* after the last line feed is kept even when it is empty
RECURSIVE Lines_split(_)
Lines_split(contents) ==
    LET feeds == {i \in 1..Len(contents) : contents[i] = "\n"}
    IN  IF feeds = {} THEN <<contents>>
        ELSE LET n == CHOOSE i \in feeds : \A j \in feeds : i <= j
             IN  <<SubSeq(contents, 1, n - 1)>>
                     \o Lines_split(SubSeq(contents, n + 1, Len(contents)))

\* str::lines: the pieces between line feeds, a carriage return before a
\* line feed stripped, no last empty piece
RECURSIVE Lines(_)
Lines(contents) ==
    IF contents = <<>> THEN <<>>
    ELSE LET feeds == {i \in 1..Len(contents) : contents[i] = "\n"}
         IN  IF feeds = {} THEN <<contents>>
             ELSE LET n == CHOOSE i \in feeds : \A j \in feeds : i <= j
                      piece == SubSeq(contents, 1, n - 1)
                      line == IF piece # <<>> /\ piece[Len(piece)] = "\r"
                              THEN SubSeq(piece, 1, Len(piece) - 1) ELSE piece
                  IN  <<line>> \o Lines(SubSeq(contents, n + 1, Len(contents)))

\* Document::open: Returned(Ok(document)) or Returned(Err) when the file
\* cannot be read.  Each row is highlighted with no search term, which
\* indexes no overlay
Document_open(name, file) ==
    IF ~Exists(file) THEN Returned([result |-> "Err"])
    ELSE Returned([result |-> "Ok",
                   doc |-> [rows |-> Lines(Content(file)),
                            is_dirty |-> FALSE,
                            search_string |-> None,
                            filename |-> Some(name),
                            filetype |-> FileTypeFrom(name)]])

\* the write_all calls of Document::save, in order: each row's text, then
\* a line feed
SaveWrites(rows) ==
    [k \in 1..(2 * Len(rows)) |->
        IF k % 2 = 1 THEN rows[(k + 1) \div 2] ELSE <<"\n">>]

\* the faults the file system may answer a save with: none, the file
\* cannot be created, or write_all number j + 1 fails (j calls done)
NoFault == <<"none">>
CreateFault == <<"create">>
WriteFault(j) == <<"write", j>>
Faults(doc) ==
    {NoFault, CreateFault} \cup {WriteFault(j) : j \in 0..(2 * Len(doc.rows) - 1)}

\* Document::save as it would be if is_dirty were cleared before the
\* writes: a save that fails while writing leaves the document clean
Document_save_clears_first(doc, file, fault) ==
    IF doc.is_dirty /\ IsSome(doc.filename)
    THEN IF fault = CreateFault
         THEN Returned([doc |-> doc, file |-> file, result |-> "Err"])
         ELSE IF fault = NoFault
         THEN Returned([doc |-> [doc EXCEPT !.is_dirty = FALSE],
                        file |-> FileOf(Concat(SaveWrites(doc.rows))),
                        result |-> "Ok"])
         ELSE Returned([doc |-> [doc EXCEPT !.is_dirty = FALSE],
                        file |-> FileOf(Concat(SubSeq(SaveWrites(doc.rows), 1, fault[2]))),
                        result |-> "Err"])
    ELSE Returned([doc |-> doc, file |-> file, result |-> "Ok"])

\* Document::save under a fault: the document, the file and Ok or Err.
\* File::create empties an existing file, create_new makes an empty one.
Document_save(doc, file, fault) ==
    IF doc.is_dirty /\ IsSome(doc.filename)
    THEN IF fault = CreateFault
         THEN Returned([doc |-> doc, file |-> file, result |-> "Err"])
         ELSE IF fault = NoFault
         THEN Returned([doc |-> [doc EXCEPT !.is_dirty = FALSE],
                        file |-> FileOf(Concat(SaveWrites(doc.rows))),
                        result |-> "Ok"])
         ELSE Returned([doc |-> doc,
                        file |-> FileOf(Concat(SubSeq(SaveWrites(doc.rows), 1, fault[2]))),
                        result |-> "Err"])
    ELSE Returned([doc |-> doc, file |-> file, result |-> "Ok"])

(***************************************************************************)
(* editor.rs: the cursor, the scroll offset and the query of a search in   *)
(* progress.  Drawing, the status message and should_quit are left out:    *)
(* no handler reads them to decide where the cursor goes.                  *)
(***************************************************************************)
\* the keys Editor::move_cursor acts on
MoveKeys == {"Up", "Down", "Left", "Right", "PageDown", "PageUp", "End", "Home"}

\* the editor before it is constructed, and as Editor::default builds it;
\* query is the query of Editor::search while its loop runs
NoEditor == <<"NoEditor">>
Editor_default ==
    [cursor_position |-> Position(0, 0), offset |-> Position(0, 0), query |-> None]

\* Editor::move_cursor: the width of row y, 0 when there is no such row
RowWidth(doc, y) ==
    IF y < Len(doc.rows) THEN Row_len(Row_from(doc.rows[y + 1])) ELSE 0

\* Editor::move_cursor: the match on the key, before x is cut to the width
MoveTo(cursor, doc, key) ==
    LET x == cursor.x
        y == cursor.y
        doc_len == Document_len(doc)
        width == RowWidth(doc, cursor.y)
    IN  CASE key = "Up" -> Position(x, SatSub(y, 1))
          [] key = "Down" -> Position(x, IF y < doc_len THEN y + 1 ELSE y)
          [] key = "Left" -> IF x > 0 THEN Position(x - 1, y)
                             ELSE IF y > 0 THEN Position(RowWidth(doc, y - 1), y - 1)
                             ELSE cursor
          [] key = "Right" -> IF x < width THEN Position(x + 1, y)
                              ELSE IF y < doc_len THEN Position(0, y + 1)
                              ELSE cursor
          [] key = "PageDown" -> Position(x, y + TerminalHeight)
          [] key = "PageUp" -> Position(x, SatSub(y, TerminalHeight))
          [] key = "End" -> Position(width, y)
          [] key = "Home" -> Position(0, y)
          [] OTHER -> cursor

\* Editor::move_cursor
Editor_move_cursor(cursor, doc, key) ==
    Bind(MoveTo(cursor, doc, key),
         LAMBDA moved :
             IF moved.x > RowWidth(doc, moved.y)
             THEN Position(RowWidth(doc, moved.y), moved.y)
             ELSE moved)

\* Editor::scroll: the offset that keeps the cursor on the screen
Editor_scroll(offset, cursor) ==
    Position(IF cursor.x < offset.x THEN cursor.x
             ELSE IF cursor.x >= offset.x + TerminalWidth
             THEN SatSub(cursor.x, TerminalWidth) + 1
             ELSE offset.x,
             IF cursor.y < offset.y THEN cursor.y
             ELSE IF cursor.y >= offset.y + TerminalHeight
             THEN SatSub(cursor.y, TerminalHeight) + 1
             ELSE offset.y)

\* the editor with the cursor at `cursor`, after self.scroll()
Scrolled(ed, cursor) ==
    [ed EXCEPT !.cursor_position = cursor,
               !.offset = Editor_scroll(ed.offset, cursor)]

(***************************************************************************)
(* The state.                                                              *)
(***************************************************************************)
VARIABLES
    document,   \* the Document: rows, filetype, filename, search_string, is_dirty
    file,       \* the file at Path
    call,       \* the call just made on the document, with its arguments, the
                \* document before it and how it ended; Idle between calls
    persisted,  \* history: the rows at the last open or save that read or
                \* wrote the file, None before any
    net,        \* history: character inserts counted minus character deletes
    row,        \* row level: the Row under test
    other,      \* row level: the row returned by Row::split
    rop,        \* row level: the call just made on the row
    editor      \* the Editor: cursor_position, offset, the query of a search

vars == <<document, file, call, persisted, net, row, other, rop, editor>>
docVars == <<document, file, call, persisted, net>>
rowVars == <<row, other, rop>>

(***************************************************************************)
(* Inputs.                                                                 *)
(***************************************************************************)
\* the characters typed into a document
Chars == {"a", "/"}
\* the characters of the documents that are saved and opened
FileChars == {"a"}
\* the search queries
Queries == StringsUpTo(Chars, 2) \ {<<>>}
\* the positions calls are made at: columns and rows in and out of range
Positions == {Position(x, y) : x \in 0..MaxChars, y \in 0..MaxRows}

\* the characters of the line texts of the row-level specification: a
\* letter, the slash, both quotes, the backslash and a blank
LineChars == {"a", "/", "\"", "'", "\\", " "}
\* the search words of Row::highlight
Words == StringsUpTo({"a", "/"}, 2)
\* the lines of the examples
Line_abcdef == <<"a", "b", "c", "d", "e", "f">>
Line_let == <<"l", "e", "t", " ", "x", " ", "=", " ", "1", "0", ";">>
Line_comment == <<"/", "/", " ", "c", "o", "m", "m", "e", "n", "t">>
ExampleLines == {Line_abcdef, Line_let, Line_comment}
LineTexts == StringsUpTo(LineChars, MaxLine) \cup ExampleLines

\* the spans given to Token::from: short ones over the characters the rules
\* look at, the keywords bare and after a vertical tab, and usize::MAX + 1
SpanChars == {"a", "1", "+", "-", ";", "\"", "'", "/", " ", VerticalTab}
Span_let == <<"l", "e", "t">>
Span_u8 == <<"u", "8">>
Span_overflow ==
    <<"1", "8", "4", "4", "6", "7", "4", "4", "0", "7",
      "3", "7", "0", "9", "5", "5", "1", "6", "1", "6">>
Spans ==
    StringsUpTo(SpanChars, MaxLine)
        \cup {Span_let, <<VerticalTab>> \o Span_let, Span_u8, Span_u8 \o <<" ">>,
              UsizeMax, Span_overflow}

\* rows with characters of one and of two bytes, the queries searched in
\* them, and the columns and offsets passed: up to one past the last byte
WideAlphabet == {"a", EAcute}
WideTexts == StringsUpTo(WideAlphabet, MaxLine)
WideQueries == StringsUpTo(WideAlphabet, 1) \ {<<>>}
WideOffsets == 0..(2 * MaxLine + 1)

\* the characters typed in the editor and the queries given to its search
\* prompt, which returns the empty string when nothing is typed
EditorChars == {"a", "/"}
EditorQueries == StringsUpTo(EditorChars, 1)

\* the total number of characters of the rows
RECURSIVE TotalLen(_)
TotalLen(rows) == IF rows = <<>> THEN 0 ELSE Len(Head(rows)) + TotalLen(Tail(rows))

\* the documents the model follows
Fits(doc) == Len(doc.rows) <= MaxRows /\ TotalLen(doc.rows) <= MaxChars

\* no call is in progress; after_write: the call that just returned was a
\* save that wrote the file
Idle(after_write) == [op |-> "idle", after_write |-> after_write]
IsIdle == call.op = "idle"

NoRow == <<"NoRow">>

(***************************************************************************)
(* Document-level actions: one call each.  A call that panics or hangs     *)
(* ends the process: nothing follows it.                                   *)
(***************************************************************************)
\* document.insert(c, &pos)
CallInsert(c, pos) ==
    /\ IsIdle
    /\ Bind(Document_insert(document, c, pos),
            LAMBDA out :
                /\ out.kind = "ok" => Fits(out.value)
                /\ document' = IF out.kind = "ok" THEN out.value ELSE document
                /\ call' = [op |-> "insert", c |-> c, pos |-> pos, pre |-> document,
                            kind |-> out.kind])
    /\ UNCHANGED <<file, persisted>>

\* document.delete(&pos)
CallDelete(pos) ==
    /\ IsIdle
    /\ Bind(Document_delete(document, pos),
            LAMBDA out :
                /\ document' = IF out.kind = "ok" THEN out.value ELSE document
                /\ call' = [op |-> "delete", pos |-> pos, pre |-> document,
                            kind |-> out.kind])
    /\ UNCHANGED <<file, persisted>>

\* document.find(&query, at, direction)
CallFind(query, at, direction) ==
    /\ IsIdle
    /\ Bind(Document_find(document, query, at, direction),
            LAMBDA out :
                /\ document' = IF out.kind = "ok" THEN out.value.doc ELSE document
                /\ call' = [op |-> "find", query |-> query, pos |-> at,
                            direction |-> direction, pre |-> document,
                            kind |-> out.kind,
                            result |-> IF out.kind = "ok" THEN out.value.result ELSE None])
    /\ UNCHANGED <<file, persisted>>

\* document.search_string = None; document.hightlight() (the end of a search)
CallHightlight ==
    /\ IsIdle
    /\ Bind(Document_hightlight([document EXCEPT !.search_string = None]),
            LAMBDA out :
                /\ document' = IF out.kind = "ok" THEN out.value ELSE document
                /\ call' = [op |-> "hightlight", pre |-> document, kind |-> out.kind])
    /\ UNCHANGED <<file, persisted>>

\* document.filename = Some(path) (a document with no name is given one)
SetFilename ==
    /\ IsIdle
    /\ ~IsSome(document.filename)
    /\ document' = [document EXCEPT !.filename = Some(Path)]
    /\ call' = [op |-> "filename", pre |-> document, kind |-> "ok"]
    /\ UNCHANGED <<file, persisted>>

\* document.save(), the file system answering with `fault`
CallSave(fault) ==
    /\ IsIdle
    /\ fault \in Faults(document)
    /\ Bind(Document_save(document, file, fault).value,
            LAMBDA out :
                /\ document' = out.doc
                /\ file' = out.file
                /\ call' = [op |-> "save", fault |-> fault, pre |-> document,
                            pre_file |-> file, kind |-> "ok", result |-> out.result,
                            wrote |-> /\ out.result = "Ok"
                                      /\ document.is_dirty
                                      /\ IsSome(document.filename)])
    /\ persisted' = IF call'.wrote THEN Some(document.rows) ELSE persisted

\* Document::open(path): a new document replaces the one in memory
CallOpen ==
    /\ IsIdle
    /\ Bind(Document_open(Path, file).value,
            LAMBDA out :
                /\ document' = IF out.result = "Ok" THEN out.doc ELSE document
                /\ call' = [op |-> "open", pre |-> document, kind |-> "ok",
                            result |-> out.result, after_write |-> call.after_write])
    /\ persisted' = IF call'.result = "Ok" THEN Some(document'.rows) ELSE persisted
    /\ UNCHANGED file

\* the call returns to its caller
Return ==
    /\ ~IsIdle
    /\ call.kind = "ok"
    /\ call' = Idle(call.op = "save" /\ call.wrote)
    /\ UNCHANGED <<document, file, persisted>>

(***************************************************************************)
(* Row-level actions: one call each on the row under test.                 *)
(***************************************************************************)
\* Token::tokenize(filetype, &row.string)
CallTokenize(filetype) ==
    /\ rop.op = "from"
    /\ rop' = [op |-> "tokenize", filetype |-> filetype, text |-> row.string,
               tokens |-> Tokenize(filetype, row.string),
               kind |-> IF TokenizePanics(filetype, row.string) THEN "panic" ELSE "ok"]
    /\ UNCHANGED <<row, other>>

\* row.highlight(filetype, &search_word)
CallHighlight(filetype, search_word) ==
    /\ rop.op = "from"
    /\ Bind(Row_highlight(row, filetype, search_word),
            LAMBDA out :
                /\ row' = IF out.kind = "ok" THEN out.value ELSE row
                /\ rop' = [op |-> "highlight", filetype |-> filetype,
                           search_word |-> search_word, text |-> row.string,
                           kind |-> out.kind])
    /\ UNCHANGED other

\* other = row.split(pos), on a new row or a highlighted one
CallSplit(pos) ==
    /\ rop.op = "from" \/ (rop.op = "highlight" /\ rop.kind = "ok")
    /\ Bind(Row_split(row, pos),
            LAMBDA halves :
                /\ row' = halves[1]
                /\ other' = halves[2])
    /\ rop' = [op |-> "split", pos |-> pos, text |-> row.string, before |-> row]

\* row.append(&other), with the row the split returned
CallAppend ==
    /\ rop.op = "split"
    /\ row' = Row_append(row, other)
    /\ rop' = [op |-> "append", pos |-> rop.pos, text |-> rop.text]
    /\ UNCHANGED other

\* Token::from(filetype.highlighting_options(), span)
CallTokenFrom(filetype, span) ==
    /\ rop.op = "from"
    /\ rop' = [op |-> "token", filetype |-> filetype, span |-> span,
               token |-> TokenFrom(HighlightingOptions(filetype), span)]
    /\ UNCHANGED <<row, other>>

\* row.len()
CallRowLen ==
    /\ rop.op = "from"
    /\ rop' = [op |-> "len", text |-> row.string, result |-> Row_len(row)]
    /\ UNCHANGED <<row, other>>

\* row.insert(c, at)
CallRowInsert(c, at) ==
    /\ rop.op = "from"
    /\ row' = Row_insert(row, c, at)
    /\ rop' = [op |-> "insert", c |-> c, at |-> at, text |-> row.string]
    /\ UNCHANGED other

\* row.delete(at)
CallRowDelete(at) ==
    /\ rop.op = "from"
    /\ row' = Row_delete(row, at)
    /\ rop' = [op |-> "delete", at |-> at, text |-> row.string]
    /\ UNCHANGED other

\* row.find(&query, start, direction)
CallRowFind(query, start, direction) ==
    /\ rop.op = "from"
    /\ Bind(Row_find(row.string, query, start, direction),
            LAMBDA out :
                rop' = [op |-> "find", query |-> query, start |-> start,
                        direction |-> direction, text |-> row.string,
                        kind |-> out.kind,
                        result |-> IF out.kind = "ok" THEN out.value ELSE None])
    /\ UNCHANGED <<row, other>>

(***************************************************************************)
(* Editor actions: one key event each, handled by Editor::process_input    *)
(* or, while a search runs, by the loop of Editor::search.  A handler that *)
(* panics or hangs ends the process.                                       *)
(***************************************************************************)
EditorRuns == IF call.op = "idle" THEN TRUE ELSE call.kind = "ok"
Typing == EditorRuns /\ ~IsSome(editor.query)
Searching == EditorRuns /\ IsSome(editor.query)

\* KeyEvent::Char(e) and KeyEvent::Tab: insert at the cursor, move Right
KeyChar(e) ==
    /\ Typing
    /\ Bind(Document_insert(document, e, editor.cursor_position),
            LAMBDA out :
                /\ out.kind = "ok" => Fits(out.value)
                /\ document' = IF out.kind = "ok" THEN out.value ELSE document
                /\ editor' = IF out.kind = "ok"
                             THEN Scrolled(editor,
                                           Editor_move_cursor(editor.cursor_position,
                                                              out.value, "Right"))
                             ELSE editor
                /\ call' = [op |-> "key", key |-> "Char", kind |-> out.kind])
    /\ UNCHANGED <<file, persisted, net, rowVars>>

\* KeyEvent::Enter: insert a newline at the cursor, move Down, then Home
KeyEnter ==
    /\ Typing
    /\ Bind(Document_insert(document, "\n", editor.cursor_position),
            LAMBDA out :
                /\ out.kind = "ok" => Fits(out.value)
                /\ document' = IF out.kind = "ok" THEN out.value ELSE document
                /\ editor' = IF out.kind = "ok"
                             THEN Scrolled(editor,
                                      Editor_move_cursor(
                                          Editor_move_cursor(editor.cursor_position,
                                                             out.value, "Down"),
                                          out.value, "Home"))
                             ELSE editor
                /\ call' = [op |-> "key", key |-> "Enter", kind |-> out.kind])
    /\ UNCHANGED <<file, persisted, net, rowVars>>

\* KeyEvent::Backspace: unless at the origin, move Left and delete there
KeyBackspace ==
    /\ Typing
    /\ IF editor.cursor_position.x > 0 \/ editor.cursor_position.y > 0
       THEN Bind(Editor_move_cursor(editor.cursor_position, document, "Left"),
                 LAMBDA cursor :
                     /\ document' = Document_delete(document, cursor).value
                     /\ editor' = Scrolled(editor, cursor))
       ELSE /\ document' = document
            /\ editor' = Scrolled(editor, editor.cursor_position)
    /\ call' = [op |-> "key", key |-> "Backspace", kind |-> "ok"]
    /\ UNCHANGED <<file, persisted, net, rowVars>>

\* KeyEvent::Delete: delete at the cursor
KeyDelete ==
    /\ Typing
    /\ document' = Document_delete(document, editor.cursor_position).value
    /\ editor' = Scrolled(editor, editor.cursor_position)
    /\ call' = [op |-> "key", key |-> "Delete", kind |-> "ok"]
    /\ UNCHANGED <<file, persisted, net, rowVars>>

\* the arrows, Home, End, PageUp, PageDown: move_cursor(key)
KeyMove(key) ==
    /\ Typing
    /\ editor' = Scrolled(editor,
                          Editor_move_cursor(editor.cursor_position, document, key))
    /\ call' = [op |-> "key", key |-> key, kind |-> "ok"]
    /\ UNCHANGED <<document, file, persisted, net, rowVars>>

\* Ctrl-F and the prompt answered with `query`: the loop of search begins
KeySearch(query) ==
    /\ Typing
    /\ editor' = [editor EXCEPT !.query = Some(query)]
    /\ call' = [op |-> "key", key |-> "Ctrl-F", kind |-> "ok"]
    /\ UNCHANGED <<document, file, persisted, net, rowVars>>

\* Left or Right in the loop of search: find backward or forward from the
\* cursor; the cursor goes to the position found, if any
SearchStep(direction) ==
    /\ Searching
    /\ Bind(Document_find(document, Unwrap(editor.query), editor.cursor_position,
                          direction),
            LAMBDA out :
                /\ document' = IF out.kind = "ok" THEN out.value.doc ELSE document
                /\ editor' = IF out.kind = "ok" /\ IsSome(out.value.result)
                             THEN Scrolled(editor, Unwrap(out.value.result))
                             ELSE editor
                /\ call' = [op |-> "search", direction |-> direction,
                            from |-> editor.cursor_position, kind |-> out.kind,
                            result |-> IF out.kind = "ok" THEN out.value.result
                                       ELSE None])
    /\ UNCHANGED <<file, persisted, net, rowVars>>

\* Esc in the loop of search: search_string = None, hightlight(), and the
\* scroll that ends process_input
SearchEsc ==
    /\ Searching
    /\ Bind(Document_hightlight([document EXCEPT !.search_string = None]),
            LAMBDA out :
                /\ document' = IF out.kind = "ok" THEN out.value ELSE document
                /\ editor' = IF out.kind = "ok"
                             THEN Scrolled([editor EXCEPT !.query = None],
                                           editor.cursor_position)
                             ELSE editor
                /\ call' = [op |-> "key", key |-> "Esc", kind |-> out.kind])
    /\ UNCHANGED <<file, persisted, net, rowVars>>

(***************************************************************************)
(* Specifications.                                                         *)
(***************************************************************************)
\* Document::default(), no file, no row under test
InitDocument ==
    /\ document = Document_default
    /\ file = NoFile
    /\ call = Idle(FALSE)
    /\ persisted = None
    /\ net = 0
    /\ editor = NoEditor
InitNoRow ==
    /\ row = Row_default
    /\ other = NoRow
    /\ rop = [op |-> "none"]

Init == InitDocument /\ InitNoRow

\* Spec: the editing and search calls on a document, from the empty one
Next ==
    \/ \E c \in Chars \cup {"\n"}, pos \in Positions :
           CallInsert(c, pos) /\ UNCHANGED <<net, rowVars, editor>>
    \/ \E pos \in Positions : CallDelete(pos) /\ UNCHANGED <<net, rowVars, editor>>
    \/ \E query \in Queries, at \in Positions, direction \in Directions :
           CallFind(query, at, direction) /\ UNCHANGED <<net, rowVars, editor>>
    \/ CallHightlight /\ UNCHANGED <<net, rowVars, editor>>
    \/ Return /\ UNCHANGED <<net, rowVars, editor>>

Spec == Init /\ [][Next]_vars

\* the faults SpecIO draws: a save succeeds, fails to create the file, or
\* fails at its first write (the file is then left created and empty)
SaveFaults == {NoFault, CreateFault, WriteFault(0)}

\* the documents SpecIO follows
FitsSaved(doc) ==
    Len(doc.rows) <= MaxSavedRows /\ TotalLen(doc.rows) <= MaxSavedChars

\* SpecIO: editing, saving and opening
NextIO ==
    \/ \E pos \in Positions : CallDelete(pos) /\ UNCHANGED <<net, rowVars, editor>>
    \/ \E c \in FileChars \cup {"\n"}, pos \in Positions :
           CallInsert(c, pos) /\ FitsSaved(document') /\ UNCHANGED <<net, rowVars, editor>>
    \/ \E at \in Positions, direction \in Directions :
           CallFind(<<"a">>, at, direction) /\ UNCHANGED <<net, rowVars, editor>>
    \/ CallHightlight /\ UNCHANGED <<net, rowVars, editor>>
    \/ SetFilename /\ UNCHANGED <<net, rowVars, editor>>
    \/ \E fault \in SaveFaults : CallSave(fault) /\ UNCHANGED <<net, rowVars, editor>>
    \/ CallOpen /\ UNCHANGED <<net, rowVars, editor>>
    \/ Return /\ UNCHANGED <<net, rowVars, editor>>

SpecIO == Init /\ [][NextIO]_vars

\* what a call adds to the count of characters: an insert of a character
\* other than a line feed at a row <= the line count adds one, a delete
\* that addresses a character removes one
Counted(cl) ==
    IF cl.op = "insert" /\ cl.kind = "ok" /\ cl.c # "\n" /\ cl.pos.y <= Len(cl.pre.rows)
    THEN 1
    ELSE IF cl.op = "delete" /\ cl.pos.y < Len(cl.pre.rows)
            /\ cl.pos.x < Len(cl.pre.rows[cl.pos.y + 1])
    THEN -1
    ELSE 0

\* the count follows the call just made; the model follows the documents
\* that have lost at most MaxLost counted characters
Count ==
    /\ net' = net + Counted(call')
    /\ net' - TotalLen(document'.rows) <= MaxLost
    /\ UNCHANGED <<rowVars, editor>>

\* SpecCount: inserts and deletes from the empty document, counted
NextCount ==
    \/ \E c \in Chars \cup {"\n"}, pos \in Positions : CallInsert(c, pos) /\ Count
    \/ \E pos \in Positions : CallDelete(pos) /\ Count
    \/ Return /\ UNCHANGED <<net, rowVars, editor>>

SpecCount == Init /\ [][NextCount]_vars

\* SpecExamples: searches in the document opened from a file holding the
\* line abcdef
ExampleQueries == {<<"d", "e">>, <<"a">>, <<"f">>, <<"e", "d">>}
ExamplePositions ==
    {Position(x, y) : x \in 0..Len(Line_abcdef), y \in 0..1}

InitExamples ==
    /\ file = FileOf(Concat(SaveWrites(<<Line_abcdef>>)))
    /\ document = Document_open(Path, file).value.doc
    /\ call = Idle(FALSE)
    /\ persisted = Some(document.rows)
    /\ net = 0
    /\ editor = NoEditor
    /\ InitNoRow

NextExamples ==
    \/ \E query \in ExampleQueries, at \in ExamplePositions, direction \in Directions :
           CallFind(query, at, direction) /\ UNCHANGED <<net, rowVars, editor>>
    \/ Return /\ UNCHANGED <<net, rowVars, editor>>

SpecExamples == InitExamples /\ [][NextExamples]_vars

\* SpecRow: Row::from(text) for each line text, then calls on that row
InitRow ==
    /\ InitDocument
    /\ \E text \in LineTexts : row = Row_from(text)
    /\ other = NoRow
    /\ rop = [op |-> "from"]

NextRow ==
    \/ \E filetype \in FileTypes : CallTokenize(filetype) /\ UNCHANGED <<docVars, editor>>
    \/ \E filetype \in FileTypes, search_word \in {None} \cup {Some(w) : w \in Words} :
           CallHighlight(filetype, search_word) /\ UNCHANGED <<docVars, editor>>
    \/ \E pos \in 0..(MaxLine + 1) : CallSplit(pos) /\ UNCHANGED <<docVars, editor>>
    \/ CallAppend /\ UNCHANGED <<docVars, editor>>

SpecRow == InitRow /\ [][NextRow]_vars

\* One call of Row::len, insert, delete, split or find on a row whose text
\* may hold characters of more than one byte.
InitWide ==
    /\ InitDocument
    /\ \E text \in WideTexts : row = Row_from(text)
    /\ other = NoRow
    /\ rop = [op |-> "from"]

NextWide ==
    \/ CallRowLen /\ UNCHANGED <<docVars, editor>>
    \/ \E c \in WideAlphabet, at \in WideOffsets : CallRowInsert(c, at) /\ UNCHANGED <<docVars, editor>>
    \/ \E at \in WideOffsets : CallRowDelete(at) /\ UNCHANGED <<docVars, editor>>
    \/ \E pos \in WideOffsets : CallSplit(pos) /\ UNCHANGED <<docVars, editor>>
    \/ \E query \in WideQueries, start \in WideOffsets, direction \in Directions :
           CallRowFind(query, start, direction) /\ UNCHANGED <<docVars, editor>>

SpecWide == InitWide /\ [][NextWide]_vars

\* One call of Token::from on a span.
InitToken ==
    /\ InitDocument
    /\ row = Row_default
    /\ other = NoRow
    /\ rop = [op |-> "from"]

NextToken ==
    \E filetype \in FileTypes, span \in Spans :
        CallTokenFrom(filetype, span) /\ UNCHANGED <<docVars, editor>>

SpecToken == InitToken /\ [][NextToken]_vars

\* The editor on a new document: key events one after the other.  PageDown
\* is followed while the cursor row is at most MaxRows.
InitEditor ==
    /\ document = Document_default
    /\ file = NoFile
    /\ call = Idle(FALSE)
    /\ persisted = None
    /\ net = 0
    /\ editor = Editor_default
    /\ InitNoRow

NextEditor ==
    \/ \E e \in EditorChars : KeyChar(e)
    \/ KeyEnter
    \/ KeyBackspace
    \/ KeyDelete
    \/ \E key \in MoveKeys :
           /\ key = "PageDown" => editor.cursor_position.y <= MaxRows
           /\ KeyMove(key)
    \/ \E query \in EditorQueries : KeySearch(query)
    \/ \E direction \in Directions : SearchStep(direction)
    \/ SearchEsc

SpecEditor == InitEditor /\ [][NextEditor]_vars

(***************************************************************************)
(* The properties, each with the specification it is stated for.           *)
(***************************************************************************)
\* C1 (SpecRow): for every line text, the values of the tokens that
\* Token::tokenize emits, concatenated in order, are the line text: no
\* character is dropped or duplicated.
C1_TokensCoverLine ==
    rop.op = "tokenize" => TokenValues(rop.tokens) = rop.text

\* C2 (SpecRow): Row::highlight never indexes an overlay out of range, and
\* when it returns both overlays have as many entries as the text has
\* characters.
C2_OverlaysMatchText ==
    rop.op = "highlight" =>
        /\ rop.kind # "panic"
        /\ rop.kind = "ok" =>
               /\ Len(row.highlighting) = Len(row.string)
               /\ Len(row.shading) = Len(row.string)

\* C3 (SpecCount): after any sequence of inserts and deletes from the empty
\* document, the sum of the lengths of the lines is the number of inserts
\* of a character other than a line feed at a row <= the line count, minus
\* the number of deletes that addressed an existing character.
C3_SumIsNetInserted ==
    TotalLen(document.rows) = net

\* the smaller of two numbers
Min(a, b) == IF a <= b THEN a ELSE b

\* the lines C4 states for a line feed inserted at column c of row r
\* (counted from 0) of `lines`, r < the line count
LinesAfterNewline(lines, c, r) ==
    [k \in 1..(Len(lines) + 1) |->
        IF k <= r THEN lines[k]
        ELSE IF k = r + 1
        THEN (IF c = 0 THEN <<>>
              ELSE [j \in 1..Min(c, Len(lines[r + 1])) |-> lines[r + 1][j]])
        ELSE IF k = r + 2
        THEN (IF c = 0 THEN lines[r + 1]
              ELSE [j \in 1..(Len(lines[r + 1]) - Min(c, Len(lines[r + 1]))) |->
                       lines[r + 1][j + c]])
        ELSE lines[k - 1]]

\* C4 (Spec): Document::insert of a line feed at (c, r), r < the line
\* count: c = 0 puts a new empty line at r and moves line r to r + 1; c > 0
\* leaves line r its first c characters and puts the rest in a new line
\* r + 1; the line count grows by one and the other lines keep their text
\* and order.
C4_NewlineSplitsLine ==
    (call.op = "insert" /\ call.c = "\n" /\ call.pos.y < Len(call.pre.rows)) =>
        /\ call.kind = "ok"
        /\ document.rows = LinesAfterNewline(call.pre.rows, call.pos.x, call.pos.y)

\* the lines C5 states for a delete at column c of row r of `lines`,
\* r < the line count
LinesAfterDelete(lines, c, r) ==
    IF c = Len(lines[r + 1]) /\ r + 2 <= Len(lines)
    THEN [k \in 1..(Len(lines) - 1) |->
             IF k <= r THEN lines[k]
             ELSE IF k = r + 1 THEN lines[r + 1] \o lines[r + 2]
             ELSE lines[k + 1]]
    ELSE [k \in 1..Len(lines) |->
             IF k # r + 1 THEN lines[k]
             ELSE IF c >= Len(lines[k]) THEN lines[k]
             ELSE [j \in 1..(Len(lines[k]) - 1) |->
                      IF j <= c THEN lines[k][j] ELSE lines[k][j + 1]]]

\* C5 (SpecCount): Document::delete at (c, r), r < the line count: when c is the
\* length of line r and line r + 1 exists, line r becomes its text followed
\* by that of line r + 1, which is removed; otherwise the character at
\* column c of line r is removed, none when c is at or past the end; the
\* other lines are unchanged.
C5_DeleteMergesOrRemoves ==
    (call.op = "delete" /\ call.pos.y < Len(call.pre.rows)) =>
        /\ call.kind = "ok"
        /\ document.rows = LinesAfterDelete(call.pre.rows, call.pos.x, call.pos.y)

\* C5 witness: a delete at the end of the non-empty middle line of three
\* has merged the non-empty last line into it
C5_MergeHappens ==
    /\ call.op = "delete"
    /\ Len(call.pre.rows) = 3
    /\ call.pos.y = 1
    /\ call.pre.rows[2] # <<>>
    /\ call.pre.rows[3] # <<>>
    /\ call.pos.x = Len(call.pre.rows[2])
    /\ Len(document.rows) = 2

\* the occurrences of `query` C6 speaks of: <<row, column of the start>>,
\* at column >= c on row r or anywhere on a later row
OccurrencesFrom(lines, query, c, r) ==
    {o \in (0..(Len(lines) - 1)) \X (0..MaxChars) :
        /\ o[1] >= r
        /\ o[1] = r => o[2] >= c
        /\ o[2] + Len(query) <= Len(lines[o[1] + 1])
        /\ \A j \in 1..Len(query) : lines[o[1] + 1][o[2] + j] = query[j]}

\* the occurrence that comes first in document order
FirstInOrder(occurrences) ==
    CHOOSE o \in occurrences :
        \A p \in occurrences : o[1] < p[1] \/ (o[1] = p[1] /\ o[2] <= p[2])

\* C6 (Spec): forward Document::find(query, (c, r)), the query not empty,
\* returns the first occurrence in document order among those that start
\* at column >= c on row r or anywhere on a later row, as
\* Position { x: start + query length, y: row }, and sets search_string to
\* the query; it returns None exactly when there is no such occurrence.
C6_ForwardFindFirst ==
    (call.op = "find" /\ call.direction = Forward /\ call.query # <<>>) =>
        /\ call.kind = "ok"
        /\ IF OccurrencesFrom(call.pre.rows, call.query, call.pos.x, call.pos.y) = {}
           THEN call.result = None
           ELSE /\ call.result = Some(Position(
                       FirstInOrder(OccurrencesFrom(call.pre.rows, call.query,
                                                    call.pos.x, call.pos.y))[2]
                           + Len(call.query),
                       FirstInOrder(OccurrencesFrom(call.pre.rows, call.query,
                                                    call.pos.x, call.pos.y))[1]))
                /\ document.search_string = Some(call.query)

\* C7 as stated (SpecExamples): forward find of "de" from column 0, row 0
\* in the document whose one line is abcdef returns column 4.
C7_FindDeReturnsFour ==
    (call.op = "find" /\ call.direction = Forward /\ call.query = <<"d", "e">>
        /\ call.pos = Position(0, 0) /\ call.pre.rows = <<Line_abcdef>>) =>
        /\ call.kind = "ok"
        /\ call.result = Some(Position(4, 0))

\* C7 witness: that find has been called and has returned a position
C7_FindDeCalled ==
    /\ call.op = "find"
    /\ call.direction = Forward
    /\ call.query = <<"d", "e">>
    /\ call.pos = Position(0, 0)
    /\ call.pre.rows = <<Line_abcdef>>
    /\ IsSome(call.result)

\* C7 (SpecExamples): forward find of "de" from column 0, row 0 in the
\* document whose one line is abcdef returns column 5, the column where
\* the match starts (3) plus the length of the query (2).
C7_FindDeReturnsFive ==
    (call.op = "find" /\ call.direction = Forward /\ call.query = <<"d", "e">>
        /\ call.pos = Position(0, 0) /\ call.pre.rows = <<Line_abcdef>>) =>
        /\ call.kind = "ok"
        /\ call.result = Some(Position(5, 0))

C9_SplitThenAppendRestores ==
    rop.op = "append" => row.string = rop.text

\* C9 witness: a row split inside its text has been put together again
C9_SplitInsideAppended ==
    /\ rop.op = "append"
    /\ rop.pos > 0
    /\ rop.pos < Len(rop.text)

\* C10 as stated (SpecIO): once the document has been opened or saved, the
\* dirty flag is true if and only if the lines differ from those at the
\* last open or save that succeeded.
C10_DirtyIffDiffers ==
    IsSome(persisted) =>
        (document.is_dirty <=> document.rows # Unwrap(persisted))

\* C10 (SpecIO): once the document has been opened or saved, the dirty flag
\* is true whenever the lines differ from those at the last open or save
\* that succeeded (it may also be true when they are the same again).
C10_DiffersThenDirty ==
    (IsSome(persisted) /\ document.rows # Unwrap(persisted)) => document.is_dirty

\* C10 witness: after a save, an edit has made the lines differ from the
\* saved ones
C10_EditedAfterSave ==
    /\ IsSome(persisted)
    /\ call.op \in {"insert", "delete"}
    /\ ~call.pre.is_dirty
    /\ document.rows # Unwrap(persisted)
    /\ document.is_dirty

\* C11 (SpecIO): the dirty flag is true right after every insert or delete
\* that returns and is not rejected for its row; it goes from true to false
\* only in a save that returned Ok and wrote every line to the file (a
\* document built by Document::open is a new one and starts clean); find
\* and hightlight never change it.
C11_DirtyFlagSteps ==
    [][/\ (call'.op = "insert" /\ call'.kind = "ok"
               /\ call'.pos.y <= Len(document.rows)) => document'.is_dirty
       /\ (call'.op = "delete" /\ call'.kind = "ok"
               /\ call'.pos.y < Len(document.rows)) => document'.is_dirty
       /\ (document.is_dirty /\ ~document'.is_dirty) =>
              \/ call'.op = "open"
              \/ /\ call'.op = "save"
                 /\ call'.result = "Ok"
                 /\ file' = FileOf(Concat(SaveWrites(document.rows)))
       /\ call'.op \in {"find", "hightlight"} =>
              document'.is_dirty = document.is_dirty]_vars

\* C11 witness: a save of a dirty document of two lines has written the
\* file and cleared the flag
C11_SaveClearedFlag ==
    /\ call.op = "save"
    /\ call.pre.is_dirty
    /\ ~document.is_dirty
    /\ Len(document.rows) = 2
    /\ file = FileOf(Concat(SaveWrites(document.rows)))

\* C12 (SpecIO): Document::save on a dirty document with no filename
\* returns an error and leaves the dirty flag set.
C12_SaveWithoutNameFails ==
    (call.op = "save" /\ call.pre.is_dirty /\ ~IsSome(call.pre.filename)) =>
        /\ call.result = "Err"
        /\ document.is_dirty

\* C13 (SpecIO): when Document::save fails, creating the file or writing a
\* line, the file holds exactly what it held before the call.
C13_FailedSaveKeepsFile ==
    (call.op = "save" /\ call.result = "Err") => file = call.pre_file

\* C14 (Spec): a call at a row beyond the document (insert at a row > the
\* line count, delete or find in either direction at a row >= the line
\* count) returns, find with None, and leaves the lines, search_string and
\* the dirty flag as they were.
C14_RowBeyondDocumentIsNoOp ==
    (\/ call.op = "insert" /\ call.pos.y > Len(call.pre.rows)
     \/ call.op \in {"delete", "find"} /\ call.pos.y >= Len(call.pre.rows)) =>
        /\ call.kind = "ok"
        /\ call.op = "find" => call.result = None
        /\ document.rows = call.pre.rows
        /\ document.search_string = call.pre.search_string
        /\ document.is_dirty = call.pre.is_dirty

\* C15 (SpecRow): Row::highlight with the empty string as search term
\* returns, on every line text (and so does the Document::find that ends
\* in it).
C15_EmptyTermHighlightReturns ==
    (rop.op = "highlight" /\ rop.search_word = Some(<<>>)) => rop.kind = "ok"

\* the kinds of the tokens, in order
TokenKinds(tokens) == [i \in 1..Len(tokens) |-> tokens[i].token_type]

\* C16 (SpecRow): with numbers, comments and punctuation enabled and `let`
\* a primary keyword, the tokens of "let x = 10;" are eight, of kinds
\* PrimaryKeywords, WhiteSpace, None, WhiteSpace, Punctuation, WhiteSpace,
\* Number, Punctuation, none of them empty; the tokens of "// comment" are
\* one Comment token that is the whole line.
C16_ExampleTokens ==
    (rop.op = "tokenize" /\ rop.filetype = RustFileType) =>
        /\ rop.text = Line_let =>
               /\ TokenKinds(rop.tokens) =
                      <<"PrimaryKeywords", "WhiteSpace", "None", "WhiteSpace",
                        "Punctuation", "WhiteSpace", "Number", "Punctuation">>
               /\ \A k \in 1..Len(rop.tokens) : rop.tokens[k].value # <<>>
        /\ rop.text = Line_comment =>
               rop.tokens = <<[value |-> Line_comment, token_type |-> "Comment"]>>

\* the character indices >= start at which query occurs in text, and the least
CharMatches(text, query, start) ==
    {m \in start..(Len(text) - Len(query)) :
        \A j \in 1..Len(query) : text[m + j] = query[j]}

FirstMatch(text, query, start) ==
    CHOOSE m \in CharMatches(text, query, start) :
        \A n \in CharMatches(text, query, start) : m <= n

\* C17: columns are character indices: Row::len is the number of
\* characters, Row::insert at column = number of characters appends, and a
\* forward Row::find returns (character index of the first match at or after
\* start) + (number of characters of the query), without failing, also on
\* lines with multi-byte characters.  (SpecWide)
C17_ColumnsAreCharIndices ==
    /\ rop.op = "len" => rop.result = Len(rop.text)
    /\ (rop.op = "insert" /\ rop.at = Len(rop.text)) =>
           row.string = Append(rop.text, rop.c)
    /\ (rop.op = "find" /\ rop.direction = Forward) =>
           /\ rop.kind = "ok"
           /\ rop.result = IF CharMatches(rop.text, rop.query, rop.start) = {}
                           THEN None
                           ELSE Some(FirstMatch(rop.text, rop.query, rop.start)
                                     + Len(rop.query))

\* a double-quoted literal: a quote, characters that are neither a quote nor
\* a backslash nor a slash, and a quote
IsStringLiteral(text) ==
    /\ Len(text) >= 2
    /\ text[1] = "\"" /\ text[Len(text)] = "\""
    /\ \A i \in 2..(Len(text) - 1) : text[i] \notin {"\"", "\\", "/"}

\* C18: with strings enabled, a line that is one double-quoted literal, with
\* whatever whitespace or punctuation between its quotes, is tokenized as
\* exactly one String token holding the whole literal, both quotes included.
\* (SpecRow)
C18_StringLiteralIsOneToken ==
    (/\ rop.op = "tokenize"
     /\ HighlightingOptions(rop.filetype).strings
     /\ IsStringLiteral(rop.text)) =>
        rop.tokens = <<[token_type |-> "String", value |-> rop.text]>>

\* an integer in decimal: an optional sign and at least one digit
IsInteger(s) ==
    LET digits == IF s # <<>> /\ Head(s) \in {"+", "-"} THEN Tail(s) ELSE s
    IN  digits # <<>> /\ \A i \in 1..Len(digits) : digits[i] \in Digits

\* the type by the first rule that matches, the rules tested on the span
\* as it is, the numeric one on the span without surrounding whitespace
TypeByPrecedence(opts, span) ==
    IF \A i \in 1..Len(span) : span[i] \in TrimWhitespace THEN "WhiteSpace"
    ELSE IF IsInteger(Trim(span)) /\ opts.numbers THEN "Number"
    ELSE IF StartsWith(span, <<"\"">>) /\ EndsWith(span, <<"\"">>) /\ opts.strings
         THEN "String"
    ELSE IF StartsWith(span, <<"'">>) /\ EndsWith(span, <<"'">>) /\ opts.characters
         THEN "Character"
    ELSE IF StartsWith(span, <<"/", "/">>) /\ opts.comments THEN "Comment"
    ELSE IF span \in opts.primary_keywords THEN "PrimaryKeywords"
    ELSE IF span \in opts.secondary_keywords THEN "SecondaryKeywords"
    ELSE IF Len(span) = 1 /\ is_ascii_punctuation(span[1]) /\ opts.punctuation
         THEN "Punctuation"
    ELSE "None"

\* C19: Token::from gives a span the type of the first rule that matches,
\* in the order WhiteSpace, Number, String, Character, Comment,
\* PrimaryKeywords, SecondaryKeywords, Punctuation, None, and the span
\* itself, untrimmed, as the value.  (SpecToken)
C19_FirstMatchingRule ==
    rop.op = "token" =>
        rop.token = [value |-> rop.span,
                     token_type |-> TypeByPrecedence(HighlightingOptions(rop.filetype),
                                                     rop.span)]

\* C20: right after Row::split, the truncated row and the returned row both
\* have empty syntax and match overlays, whatever the row had before.
\* (SpecRow)
C20_SplitClearsOverlays ==
    rop.op = "split" =>
        /\ row.highlighting = <<>> /\ row.shading = <<>>
        /\ other.highlighting = <<>> /\ other.shading = <<>>

\* C21: Document::insert rejects a column past the end of the line: a
\* character other than a newline, inserted at a row of the document and a
\* column greater than the length of that row, leaves the lines and the
\* dirty flag as they were.  (SpecIO)
C21_ColumnPastEndRejected ==
    (/\ call.op = "insert" /\ call.c # "\n"
     /\ call.pos.y < Len(call.pre.rows)
     /\ call.pos.x > Len(call.pre.rows[call.pos.y + 1])) =>
        /\ call.kind = "ok"
        /\ document.rows = call.pre.rows
        /\ document.is_dirty = call.pre.is_dirty

\* the occurrences <<row, start>> of query a backward search from (c, r)
\* is to see: on row r those that end at or before column c - |query|, on
\* the rows above r all of them
OccurrencesBefore(lines, query, c, r) ==
    {o \in (0..(Len(lines) - 1)) \X (0..MaxChars) :
        /\ o[1] <= r
        /\ o[1] = r => o[2] + Len(query) + Len(query) <= c
        /\ o[2] + Len(query) <= Len(lines[o[1] + 1])
        /\ \A j \in 1..Len(query) : lines[o[1] + 1][o[2] + j] = query[j]}

\* the occurrence that comes last in document order, the nearest to the caret
LastInOrder(occurrences) ==
    CHOOSE o \in occurrences :
        \A p \in occurrences : o[1] > p[1] \/ (o[1] = p[1] /\ o[2] >= p[2])

\* C22: a backward Document::find(query, (c, r)) that returns, the query
\* not empty and r a row of the document, returns None only when row r has
\* no occurrence ending at or before column c - |query| and no row above
\* contains the query; otherwise it returns the nearest such occurrence, an
\* occurrence at the very end of an earlier row included.  (Spec)
C22_BackwardFindNearest ==
    (/\ call.op = "find" /\ call.direction = Backward /\ call.query # <<>>
     /\ call.pos.y < Len(call.pre.rows) /\ call.kind = "ok") =>
        IF OccurrencesBefore(call.pre.rows, call.query, call.pos.x, call.pos.y) = {}
        THEN call.result = None
        ELSE call.result = Some(Position(
                 LastInOrder(OccurrencesBefore(call.pre.rows, call.query,
                                               call.pos.x, call.pos.y))[2]
                     + Len(call.query),
                 LastInOrder(OccurrencesBefore(call.pre.rows, call.query,
                                               call.pos.x, call.pos.y))[1]))

\* p comes before q in (row, column) order
Before(p, q) == p.y < q.y \/ (p.y = q.y /\ p.x < q.x)

\* C23: a forward search step with a query that is not empty returns, and
\* the position it returns comes strictly after the one it started from,
\* so repeated steps never return an occurrence twice and end with None.
\* (SpecEditor)
C23_ForwardSearchAdvances ==
    [][(/\ call'.op = "search" /\ call'.direction = Forward
        /\ Unwrap(editor.query) # <<>>
        /\ editor.cursor_position.y < Len(document.rows)) =>
           /\ call'.kind = "ok"
           /\ IsSome(call'.result) =>
                  Before(editor.cursor_position, Unwrap(call'.result))]_vars

\* C24: after any sequence of key events the cursor row is at most the
\* number of lines and the cursor column at most the length of the line at
\* the cursor row, 0 past the last line.  (SpecEditor)
C24_CursorWithinDocument ==
    /\ editor.cursor_position.y <= Len(document.rows)
    /\ editor.cursor_position.x <= RowWidth(document, editor.cursor_position.y)

=============================================================================
